---------------------------- MODULE Spec2Model ----------------------------
(***************************************************************************)
(* A model of python/client.py: the DeepnetPredictor client of a remote    *)
(* Aquila model.  It covers                                                *)
(*   - the connection life cycle (connect, _disconnect, _reconnect,        *)
(*     shutdown and the connectivity callback _check_conn),                *)
(*   - the retry loop of Predictor.predict around DeepnetPredictor._predict*)
(*   - the in-flight counter `active` and complete().                      *)
(*                                                                         *)
(* Threads.  Thread App is the application thread that calls connect(),    *)
(* _disconnect() and shutdown().  Threads 1..NumCbThreads are the channel  *)
(* threads on which gRPC delivers connectivity statuses to _check_conn.    *)
(* Every predict caller is a coroutine with its own position.              *)
(*                                                                         *)
(* Granularity.  A step is one access to shared state.  Code under         *)
(* `with self._conn_lock` is split only where it touches state that is     *)
(* also read or written without that lock (_ready, stub, _shutting_down).  *)
(* `with self._ready_lock` and `with self._cv` each guard one access, so   *)
(* each of them is one atomic step.                                        *)
(*                                                                         *)
(* Environment.  A status is handed to the callback only while a callback  *)
(* is subscribed; the callback then runs at its own pace, so it may still  *)
(* be running after _disconnect or shutdown.  An RPC always resolves, with *)
(* a response or with an error (its deadline is an error).  The length of  *)
(* the sleep of predict plays no part in what follows it and is not kept;  *)
(* _aquila_prep is a pure function of the image and takes no step.         *)
(***************************************************************************)
EXTENDS Integers, Sequences, FiniteSets, TLC

(* ------------------------------ bounds --------------------------------- *)
NumCbThreads == 2
\* channels that may be opened in one run
MaxChannels == 3
\* the same for the runs of SpecRow
RowChannels == 4
\* the same for the runs of SpecRetry and of SpecThrottle
RetryChannels == 2
ThrottleChannels == 1
\* largest ntries in the runs of SpecThrottle
ThrottleTries == 1
\* cap of the consecutive-failure counter
MaxFailures == 3
NumCallers == 2
\* largest ntries a caller passes to predict
MaxTries == 2
\* largest concurrency passed to DeepnetPredictor.__init__
MaxConcurrency == 1
\* largest width and height of an image given to _pad_to_asp
MaxSide == 20

(* ----------------------------- constants -------------------------------- *)
None == 0
App == 0
CbThreads == 1..NumCbThreads
Threads == {App} \cup CbThreads
Callers == 1..NumCallers

FailureStatuses == {"TRANSIENT_FAILURE", "FATAL_FAILURE"}
ChannelConnectivity == FailureStatuses \cup {"READY", "CONNECTING"}

\* random.random() in tenths: the values the jitter is drawn from
JitterTenths == {1, 9}
\* one value, where the length of the sleep plays no part
OneJitter == {9}

VARIABLES
  \* ---- DeepnetPredictor fields
  concurrency,        \* self.concurrency
  active,             \* self.active
  shutting_down,      \* self._shutting_down
  channel,            \* self.channel: None or the id of the open channel
  stub,               \* self.stub: None or the id of the channel it wraps
  conn_callback,      \* self._conn_callback: None or the subscribed channel
  ready,              \* self._ready (tornado.locks.Event) is set
  consequtive_connection_failures,
  conn_lock,          \* the thread holding self._conn_lock, as a set
  \* ---- threads running connection code
  tpc,                \* position of each thread
  top,                \* the top-level operation each thread is running
  targ,               \* its argument, as a string: force_refresh or the status
  tload,              \* value of the failure counter read by `+= 1`
  \* ---- history of the connection
  nopen,              \* channels opened so far = calls of aq_conn.get_ip
  lastRefresh,        \* force_refresh of the last get_ip call
  sleepLog,           \* backoff sleeps of the current run of failures
  connErr,            \* an operation of the connection raised
  shutdownDone,       \* a call of shutdown() has returned
  nDisc,              \* _disconnect/shutdown calls completed since the last open
  \* ---- predict callers (Predictor.predict around _predict)
  pc,                 \* position of each caller
  cur_try,            \* cur_try
  ntries,             \* ntries
  e,                  \* the exception variable `e` of predict
  out,                \* how the call ended: returned value or raised exception
  pending,            \* what the `try` around the RPC leaves with
  fails,              \* history: the exception each failed attempt raised
  rpcs,               \* history: RPCs issued (stub.Regress.future calls)
  sleeps,             \* history: backoff sleeps begun
  waited,             \* history: the attempt whose readiness wait succeeded
  admitted,           \* history: admits (active += 1) so far
  released,           \* history: releases (active -= 1) so far
  \* ---- the caller of complete()
  cpc,                \* its position
  cwaited,            \* history: this call of complete() has waited
  \* ---- image preparation
  imgs                \* the image given to _pad_to_asp and each image it returned

connVars == <<shutting_down, channel, stub, conn_callback, ready,
              consequtive_connection_failures, conn_lock>>
threadVars == <<tpc, top, targ, tload>>
histVars == <<nopen, lastRefresh, sleepLog, connErr, shutdownDone, nDisc>>
\* what no operation of the predictor assigns
inputVars == <<concurrency, imgs>>
throttleVars == <<inputVars, active, admitted, released, cpc, cwaited>>
predVars == <<pc, cur_try, ntries, e, out, pending, fails, rpcs, sleeps, waited>>
clientVars == <<throttleVars, predVars>>
vars == <<clientVars, connVars, threadVars, histVars>>

(* ----------------------- pure parts of the code ------------------------- *)
\* n << 1
ShiftLeft1(n) == n * 2

\* a bound that shifts the other way
ConnBackoffShiftedRight(failures) == (failures \div 2) * 100

\* upper bound, in milliseconds, of the sleep of _check_conn:
\* (failures << 1) * 0.1 seconds
ConnBackoffBound(failures) == ShiftLeft1(failures) * 100

\* the sleep itself: (failures << 1) * 0.1 * random.random(), with
\* random.random() = j / 10
ConnBackoffSleep(failures, j) == (ConnBackoffBound(failures) * j) \div 10

\* self._consequtive_connection_failures += 1, the value stored
IncFailures(loaded) == loaded + 1

\* a connect that does not look at _shutting_down
ConnectIgnoresShutdown(ch, sd) == ch = None

\* connect: `if self.channel is None and not self._shutting_down`
ConnectGuard(ch, sd) == ch = None /\ ~sd

\* a _disconnect that does not test the channel
DisconnectAlways(ch) == TRUE

\* _disconnect: `if self.channel is not None`
DisconnectGuard(ch) == ch # None

IsFailure(status) == status \in FailureStatuses

\* a callback that takes every status that is no failure for READY
SetsReadyOnAnyStatus(status, is_set) == ~is_set

\* _check_conn on a status that is no failure: `elif self._ready.is_set():
\* pass`, `elif status is ChannelConnectivity.READY:`
SetsReady(status, is_set) == ~is_set /\ status = "READY"

(* ------------------------------- Init ----------------------------------- *)
ConnInit ==
  /\ shutting_down = FALSE
  /\ channel = None
  /\ stub = None
  /\ conn_callback = None
  /\ ready = FALSE
  /\ consequtive_connection_failures = 0
  /\ conn_lock = {}
  /\ tpc = [t \in Threads |-> "idle"]
  /\ top = [t \in Threads |-> "none"]
  /\ targ = [t \in Threads |-> "none"]
  /\ tload = [t \in Threads |-> 0]
  /\ nopen = 0
  /\ lastRefresh = FALSE
  /\ sleepLog = <<>>
  /\ connErr = FALSE
  /\ shutdownDone = FALSE
  /\ nDisc = 0

\* `e` before any `except ... as e` has bound it
Unbound == [cls |-> "unbound", msg |-> "", id |-> 0]
NoValue == [score |-> "None", vec |-> "None", vers |-> "None"]
NoOutcome == [kind |-> "none", exc |-> Unbound, val |-> NoValue]

ClientInit ==
  /\ concurrency \in 1..MaxConcurrency
  /\ active = 0
  /\ admitted = 0
  /\ released = 0
  /\ cpc = "idle"
  /\ cwaited = FALSE
  /\ pc = [p \in Callers |-> "idle"]
  /\ cur_try = [p \in Callers |-> 0]
  /\ ntries = [p \in Callers |-> 0]
  /\ e = [p \in Callers |-> Unbound]
  /\ out = [p \in Callers |-> NoOutcome]
  /\ pending = [p \in Callers |-> "none"]
  /\ fails = [p \in Callers |-> <<>>]
  /\ rpcs = [p \in Callers |-> 0]
  /\ sleeps = [p \in Callers |-> 0]
  /\ waited = [p \in Callers |-> 0]

\* no image is being prepared
Init == ClientInit /\ ConnInit /\ imgs = <<>>

(* --------------------- the connection: calls ---------------------------- *)
\* threads that are on their way to connect() and may open a channel
MayOpen(cap) == nopen + Cardinality({t \in Threads :
              \/ top[t] = "connect"
              \/ top[t] = "_check_conn" /\ IsFailure(targ[t])}) < cap

Goto(t, pos) == tpc' = [tpc EXCEPT ![t] = pos]

Finish(t) ==
  /\ tpc' = [tpc EXCEPT ![t] = "idle"]
  /\ top' = [top EXCEPT ![t] = "none"]
  /\ targ' = [targ EXCEPT ![t] = "none"]

\* the application calls connect(force_refresh)
CallConnect(force_refresh, cap) ==
  /\ tpc[App] = "idle"
  /\ MayOpen(cap)
  /\ tpc' = [tpc EXCEPT ![App] = "conn"]
  /\ top' = [top EXCEPT ![App] = "connect"]
  /\ targ' = [targ EXCEPT ![App] = IF force_refresh THEN "True" ELSE "False"]
  /\ UNCHANGED <<clientVars, connVars, tload, histVars>>

\* the application calls _disconnect()
CallDisconnect ==
  /\ tpc[App] = "idle"
  /\ tpc' = [tpc EXCEPT ![App] = "disc"]
  /\ top' = [top EXCEPT ![App] = "_disconnect"]
  /\ UNCHANGED <<clientVars, connVars, targ, tload, histVars>>

\* the application calls shutdown(): the flag is set before _disconnect()
CallShutdown ==
  /\ tpc[App] = "idle"
  /\ shutting_down' = TRUE
  /\ tpc' = [tpc EXCEPT ![App] = "disc"]
  /\ top' = [top EXCEPT ![App] = "shutdown"]
  /\ UNCHANGED <<clientVars, channel, stub, conn_callback, ready,
                 consequtive_connection_failures, conn_lock,
                 targ, tload, histVars>>

\* the channel hands a status to the subscribed callback on thread t
\* (deepnet_conn_callback); the callback runs from then on
Deliver(t, status, cap) ==
  /\ tpc[t] = "idle"
  /\ conn_callback # None
  /\ IsFailure(status) =>
        MayOpen(cap) /\ consequtive_connection_failures < MaxFailures
  /\ tpc' = [tpc EXCEPT ![t] = "check_conn"]
  /\ top' = [top EXCEPT ![t] = "_check_conn"]
  /\ targ' = [targ EXCEPT ![t] = status]
  /\ UNCHANGED <<clientVars, connVars, tload, histVars>>

(* ------------------------- _check_conn ---------------------------------- *)
\* the branch taken by _check_conn; on a failure status the first half of
\* `+= 1` reads the counter
CheckConn(t) ==
  /\ tpc[t] = "check_conn"
  /\ IF IsFailure(targ[t])
       THEN /\ tload' = [tload EXCEPT ![t] = consequtive_connection_failures]
            /\ Goto(t, "inc")
            /\ UNCHANGED <<top, targ>>
       ELSE /\ IF SetsReady(targ[t], ready)
                 THEN Goto(t, "set_ready") /\ UNCHANGED <<top, targ>>
                 ELSE Finish(t)
            /\ UNCHANGED tload
  /\ UNCHANGED <<clientVars, connVars, histVars>>

\* second half of `+= 1`, then time.sleep(...) begins
StoreFailures(t, j) ==
  /\ tpc[t] = "inc"
  /\ consequtive_connection_failures' = IncFailures(tload[t])
  /\ sleepLog' = Append(sleepLog,
        [count |-> consequtive_connection_failures',
         bound |-> ConnBackoffBound(consequtive_connection_failures'),
         sleep |-> ConnBackoffSleep(consequtive_connection_failures', j)])
  /\ Goto(t, "sleep")
  /\ UNCHANGED <<clientVars, shutting_down, channel, stub, conn_callback,
                 ready, conn_lock, top, targ, tload,
                 nopen, lastRefresh, connErr, shutdownDone, nDisc>>

\* the sleep ends: self._reconnect(force_refresh=True)
Wake(t) ==
  /\ tpc[t] = "sleep"
  /\ Goto(t, "disc")
  /\ UNCHANGED <<clientVars, connVars, top, targ, tload, histVars>>

\* with self._ready_lock: self._ready.set()
SetReady(t) ==
  /\ tpc[t] = "set_ready"
  /\ ready' = TRUE
  /\ Goto(t, "reset")
  /\ UNCHANGED <<clientVars, shutting_down, channel, stub, conn_callback,
                 consequtive_connection_failures, conn_lock,
                 top, targ, tload, histVars>>

\* self._consequtive_connection_failures = 0
ResetFailures(t) ==
  /\ tpc[t] = "reset"
  /\ consequtive_connection_failures' = 0
  /\ sleepLog' = <<>>
  /\ Finish(t)
  /\ UNCHANGED <<clientVars, shutting_down, channel, stub, conn_callback,
                 ready, conn_lock, tload,
                 nopen, lastRefresh, connErr, shutdownDone, nDisc>>

(* -------------------------- _disconnect --------------------------------- *)
\* what follows _disconnect() in the operation thread t is running
AfterDisconnect(t) ==
  IF top[t] = "_check_conn"
    THEN \* _reconnect goes on with self.connect(force_refresh)
         /\ Goto(t, "conn")
         /\ UNCHANGED <<top, targ, shutdownDone, nDisc>>
    ELSE /\ Finish(t)
         /\ shutdownDone' = (shutdownDone \/ top[t] = "shutdown")
         /\ nDisc' = IF nDisc < 2 THEN nDisc + 1 ELSE nDisc

\* _disconnect takes the lock and tests the channel; with a channel it
\* clears the ready event, without one it returns
DisconnectEnter(t) ==
  /\ tpc[t] = "disc"
  /\ conn_lock = {}
  /\ IF DisconnectGuard(channel)
       THEN /\ conn_lock' = {t}
            /\ ready' = FALSE
            /\ Goto(t, "disc_body")
            /\ UNCHANGED <<top, targ, shutdownDone, nDisc>>
       ELSE /\ AfterDisconnect(t)
            /\ UNCHANGED <<conn_lock, ready>>
  /\ UNCHANGED <<clientVars, shutting_down, channel, stub, conn_callback,
                 consequtive_connection_failures, tload,
                 nopen, lastRefresh, sleepLog, connErr>>

\* the rest of the body: the stub and the channel are dropped, the callback
\* is unsubscribed, the lock is released.  unsubscribe on a channel that is
\* None raises AttributeError.
DisconnectBody(t) ==
  /\ tpc[t] = "disc_body"
  /\ stub' = None
  /\ IF channel = None
       THEN /\ connErr' = TRUE
            /\ Finish(t)
            /\ UNCHANGED <<channel, conn_callback, shutdownDone, nDisc>>
       ELSE /\ conn_callback' = None
            /\ channel' = None
            /\ AfterDisconnect(t)
            /\ UNCHANGED connErr
  /\ conn_lock' = {}
  /\ UNCHANGED <<clientVars, shutting_down, ready,
                 consequtive_connection_failures, tload,
                 nopen, lastRefresh, sleepLog>>

(* ----------------------------- connect ---------------------------------- *)
ForceRefresh(t) == IF top[t] = "_check_conn" THEN TRUE ELSE targ[t] = "True"

\* connect takes the lock and tests channel and _shutting_down
ConnectEnter(t) ==
  /\ tpc[t] = "conn"
  /\ conn_lock = {}
  /\ IF ConnectGuard(channel, shutting_down)
       THEN /\ conn_lock' = {t}
            /\ Goto(t, "conn_open")
            /\ UNCHANGED <<top, targ>>
       ELSE /\ Finish(t)
            /\ UNCHANGED conn_lock
  /\ UNCHANGED <<clientVars, shutting_down, channel, stub, conn_callback,
                 ready, consequtive_connection_failures, tload, histVars>>

\* get_ip, insecure_channel, channel.subscribe
ConnectOpen(t) ==
  /\ tpc[t] = "conn_open"
  /\ nopen' = nopen + 1
  /\ lastRefresh' = ForceRefresh(t)
  /\ channel' = nopen'
  /\ conn_callback' = nopen'
  /\ nDisc' = 0
  /\ Goto(t, "conn_stub")
  /\ UNCHANGED <<clientVars, shutting_down, stub, ready,
                 consequtive_connection_failures, conn_lock,
                 top, targ, tload, sleepLog, connErr, shutdownDone>>

\* beta_create_AquilaService_stub, then the lock is released
ConnectStub(t) ==
  /\ tpc[t] = "conn_stub"
  /\ stub' = channel
  /\ conn_lock' = {}
  /\ Finish(t)
  /\ UNCHANGED <<clientVars, shutting_down, channel, conn_callback, ready,
                 consequtive_connection_failures, tload, histVars>>

(* ------------------- pure parts of predict / _predict ------------------- *)
\* an exception object: its class, its message, and the attempt that raised
\* it (which tells two objects with the same message apart)
Exc(cls, msg, id) == [cls |-> cls, msg |-> msg, id |-> id]
PredictionError(msg, id) == Exc("PredictionError", msg, id)

\* what the awaited RPC can come back with
RpcOutcomes == {"error", "none", "scalar",
                "vector", "vector_nokey", "vector_baddim",
                "vector_noversion", "vector_emptyversion", "vector_nomodel"}

\* `vers` when the response names no model version
FallbackVersion == "aqv1.1.250"

\* a response of the service, with what the demographic tables hold for
\* it: valence has one element or is a feature vector; model_version is
\* None, empty, a version with no table files, or a version with tables;
\* the key (gender, age) is in the tables or not; the feature vector has
\* the length of the weights or not
Response(r) ==
  [valence |-> IF r = "scalar" THEN "one" ELSE "many",
   model_version |->
      CASE r \in {"scalar", "vector_noversion"} -> "None"
        [] r = "vector_emptyversion" -> ""
        [] r = "vector_nomodel" -> "no-table"
        [] OTHER -> "aqv2",
   has_key |-> r # "vector_nokey",
   dims_ok |-> r # "vector_baddim"]

\* DemographicSignatures(model_version) followed by
\* compute_score_for_demo(features, gender, age): the score, or the class
\* of the exception raised.  The table files are read first (IOError
\* becomes KeyError), then bias and weights are looked up (KeyError), then
\* the dot product is taken (ValueError).
ScoreOutcome(resp) ==
  IF resp.model_version \in {"", "no-table"} THEN "KeyError"
  ELSE IF ~resp.has_key THEN "KeyError"
  ELSE IF ~resp.dims_ok THEN "ValueError"
  ELSE "score"

\* a _predict without the except clause
PredictCatchesNothing(cls) == FALSE

\* _predict: `except KeyError as e` around the score
PredictCatches(cls) == cls = "KeyError"

\* a loop that runs one attempt more
RetryOneMore(try, n) == try <= n

\* predict: `while cur_try < ntries`
RetryGuard(try, n) == try < n

\* an `except Exception` clause that does not bind e
BindOnlyPredictionError(old, raised) ==
  IF raised.cls = "PredictionError" THEN raised ELSE old

\* `except PredictionError as e` / `except Exception as e`: the value of e
BindExc(old, raised) == raised

\* the statements after the loop of predict
Terminal(exc) ==
  IF exc = Unbound
    THEN Exc("UnboundLocalError", "e", 0)
    ELSE IF exc.cls = "PredictionError"
           THEN exc
           ELSE PredictionError(exc.msg, exc.id)

\* a wait whose timeout is not raised
WaitSwallowed == "proceed"

\* a wait with no timeout: self._ready.wait()
WaitNeverTimesOut == "block"

\* yield ready_future, when the timeout passes with the event not set:
\* gen.with_timeout raises TimeoutError
WaitTimedOut == "raise"

\* _predict after the `try`: the value returned for a response, or the
\* exception raised
Interpret(resp, try) ==
  CASE resp = "attr" ->
         [kind |-> "raise", val |-> NoValue,
          exc |-> PredictionError("RPC Error: AttributeError", try)]
    [] resp = "error" ->
         [kind |-> "raise", val |-> NoValue,
          exc |-> PredictionError("RPC Error: rpc", try)]
    [] resp = "none" ->
         [kind |-> "raise", val |-> NoValue,
          exc |-> PredictionError("RPC Error: response was None", try)]
    [] OTHER ->
         LET response == Response(resp)
             vers == IF response.model_version \in {"None", ""}
                       THEN FallbackVersion
                       ELSE response.model_version
             Return(score, vec) ==
               [kind |-> "return", exc |-> Unbound,
                val |-> [score |-> score, vec |-> vec, vers |-> vers]]
             scored == ScoreOutcome(response)
         IN IF response.valence = "one"
              THEN Return("valence[0]", "None")
            ELSE IF response.model_version = "None"
              THEN Return("None", "features")
            ELSE IF scored = "score"
              THEN Return("score", "features")
            ELSE IF PredictCatches(scored)
              THEN Return("None", "features")
            ELSE [kind |-> "raise", val |-> NoValue,
                  exc |-> Exc(scored,
                              IF scored = "ValueError"
                                THEN "Improper feature vector size"
                                ELSE "unknown model/demographic",
                              try)]

\* an admit that does not count the request
AdmitNotCounted(a) == a

\* with self._cv: self.active += 1
AdmitCount(a) == a + 1

\* a release that runs twice for one admit
ReleaseTwice(a) == a - 2

\* with self._cv: self.active -= 1
ReleaseCount(a) == a - 1

\* a loop that lets complete() go while one request is in flight
CompleteExitsEarly(a) == a > 1

\* complete: `while self.active > 0`
CompleteLoopCond(a) == a > 0

(* ------------------------------ predict --------------------------------- *)
\* an attempt of caller p ends with the exception exc: one of the two
\* except clauses of predict binds e and starts the backoff sleep
Catch(p, exc) ==
  /\ e' = [e EXCEPT ![p] = BindExc(e[p], exc)]
  /\ fails' = [fails EXCEPT ![p] = Append(fails[p], exc)]
  /\ sleeps' = [sleeps EXCEPT ![p] = sleeps[p] + 1]
  /\ pc' = [pc EXCEPT ![p] = "backoff"]

\* a caller calls predict(image, ntries=n)
CallPredict(p, n) ==
  /\ pc[p] = "idle"
  /\ pc' = [pc EXCEPT ![p] = "loop"]
  /\ ntries' = [ntries EXCEPT ![p] = n]
  /\ UNCHANGED <<throttleVars, cur_try, e, out, pending, fails, rpcs, sleeps,
                 waited, connVars, threadVars, histVars>>

\* the loop test of predict; a new attempt enters _predict, which tests
\* _shutting_down and otherwise starts to wait for the ready event
LoopTop(p) ==
  /\ pc[p] = "loop"
  /\ IF RetryGuard(cur_try[p], ntries[p])
       THEN /\ cur_try' = [cur_try EXCEPT ![p] = cur_try[p] + 1]
            /\ IF shutting_down
                 THEN Catch(p, PredictionError("Object is shutting down.",
                                               cur_try'[p]))
                 ELSE /\ pc' = [pc EXCEPT ![p] = "wait_ready"]
                      /\ UNCHANGED <<e, fails, sleeps>>
            /\ UNCHANGED out
       ELSE /\ out' = [out EXCEPT ![p] =
                 [kind |-> "raise", exc |-> Terminal(e[p]), val |-> NoValue]]
            /\ pc' = [pc EXCEPT ![p] = "done"]
            /\ UNCHANGED <<cur_try, e, fails, sleeps>>
  /\ UNCHANGED <<throttleVars, ntries, pending, rpcs, waited,
                 connVars, threadVars, histVars>>

\* the ready event is set: the wait of this attempt succeeds
WaitReady(p) ==
  /\ pc[p] = "wait_ready"
  /\ ready
  /\ waited' = [waited EXCEPT ![p] = cur_try[p]]
  /\ pc' = [pc EXCEPT ![p] = "admit"]
  /\ UNCHANGED <<throttleVars, cur_try, ntries, e, out, pending, fails, rpcs,
                 sleeps, connVars, threadVars, histVars>>

\* the timeout of the wait passes and the event is not set
WaitTimeout(p) ==
  /\ pc[p] = "wait_ready"
  /\ ~ready
  /\ WaitTimedOut # "block"
  /\ IF WaitTimedOut = "raise"
       THEN Catch(p, Exc("TimeoutError", "Timeout", cur_try[p]))
       ELSE /\ pc' = [pc EXCEPT ![p] = "admit"]
            /\ UNCHANGED <<e, fails, sleeps>>
  /\ UNCHANGED <<throttleVars, cur_try, ntries, out, pending, rpcs, waited,
                 connVars, threadVars, histVars>>

\* with self._cv: self.active += 1
Admit(p) ==
  /\ pc[p] = "admit"
  /\ active' = AdmitCount(active)
  /\ admitted' = admitted + 1
  /\ pc' = [pc EXCEPT ![p] = "issue"]
  /\ UNCHANGED <<inputVars, released, cpc, cwaited, cur_try, ntries, e, out, pending,
                 fails, rpcs, sleeps, waited, connVars, threadVars, histVars>>

\* self.stub.Regress.future(request, timeout): without a stub this raises
\* AttributeError inside the try, with one the RPC is on its way
Issue(p) ==
  /\ pc[p] = "issue"
  /\ IF stub = None
       THEN /\ pending' = [pending EXCEPT ![p] = "attr"]
            /\ pc' = [pc EXCEPT ![p] = "release"]
            /\ UNCHANGED rpcs
       ELSE /\ rpcs' = [rpcs EXCEPT ![p] = rpcs[p] + 1]
            /\ pc' = [pc EXCEPT ![p] = "rpc"]
            /\ UNCHANGED pending
  /\ UNCHANGED <<throttleVars, cur_try, ntries, e, out, fails, sleeps, waited,
                 connVars, threadVars, histVars>>

\* the RPC future resolves: a response, or an error (its deadline included)
RpcResolve(p, r) ==
  /\ pc[p] = "rpc"
  /\ pending' = [pending EXCEPT ![p] = r]
  /\ pc' = [pc EXCEPT ![p] = "release"]
  /\ UNCHANGED <<throttleVars, cur_try, ntries, e, out, fails, rpcs, sleeps,
                 waited, connVars, threadVars, histVars>>

\* the finally clause: active -= 1 and notify_all; then the attempt ends,
\* returning the interpreted response or raising
Release(p) ==
  /\ pc[p] = "release"
  /\ active' = ReleaseCount(active)
  /\ released' = released + 1
  /\ cpc' = IF cpc = "waiting" THEN "woken" ELSE cpc
  /\ pending' = [pending EXCEPT ![p] = "none"]
  /\ LET r == Interpret(pending[p], cur_try[p])
     IN IF r.kind = "raise"
          THEN /\ Catch(p, r.exc)
               /\ UNCHANGED out
          ELSE /\ out' = [out EXCEPT ![p] = r]
               /\ pc' = [pc EXCEPT ![p] = "done"]
               /\ UNCHANGED <<e, fails, sleeps>>
  /\ UNCHANGED <<inputVars, admitted, cwaited, cur_try, ntries, rpcs, waited,
                 connVars, threadVars, histVars>>

\* tornado.gen.sleep(delay) ends
BackoffEnd(p) ==
  /\ pc[p] = "backoff"
  /\ pc' = [pc EXCEPT ![p] = "loop"]
  /\ UNCHANGED <<throttleVars, cur_try, ntries, e, out, pending, fails, rpcs,
                 sleeps, waited, connVars, threadVars, histVars>>

PredictStep(p, outcomes) ==
  \/ LoopTop(p)
  \/ WaitReady(p)
  \/ WaitTimeout(p)
  \/ Admit(p)
  \/ Issue(p)
  \/ \E r \in outcomes : RpcResolve(p, r)
  \/ Release(p)
  \/ BackoffEnd(p)

(* ------------------------------ complete -------------------------------- *)
\* complete() takes self._cv and tests the loop condition: it waits on the
\* condition or returns True
CompleteTest(from) ==
  /\ cpc = from
  /\ cpc' = IF CompleteLoopCond(active) THEN "waiting" ELSE "returned"
  /\ cwaited' = (cwaited \/ cpc' = "waiting")
  /\ UNCHANGED <<inputVars, active, admitted, released, predVars,
                 connVars, threadVars, histVars>>

CallComplete == CompleteTest("idle")

\* notify_all has woken the waiter, which takes the lock and tests again
CompleteWake == CompleteTest("woken")

\* the caller of complete() goes on with the value True
CompleteReturn ==
  /\ cpc = "returned"
  /\ cpc' = "idle"
  /\ cwaited' = FALSE
  /\ UNCHANGED <<inputVars, active, admitted, released, predVars,
                 connVars, threadVars, histVars>>

CompleteStep == CallComplete \/ CompleteWake \/ CompleteReturn

(* ------------------------- image preparation ---------------------------- *)
\* an image: its size, and where the top-left corner of the image first
\* given sits in it
Image(w, h) == [w |-> w, h |-> h, x |-> 0, y |-> 0]

\* the aspect ratio _aquila_prep asks for, 16./9, as a fraction
PrepAsp == [num |-> 16, den |-> 9]

\* a test that is turned around
WidenWhenTooWide(asp, ow, oh) == asp.num * oh < asp.den * ow

\* `asp > oasp`, oasp = float(ow) / oh: the image is too narrow
MustWiden(asp, ow, oh) == asp.num * oh > asp.den * ow

\* `asp < oasp`: the image is too wide
MustHeighten(asp, ow, oh) == asp.num * oh < asp.den * ow

\* _pad_to_asp(img, asp): int() truncates, `/` on the ints is the floor
PadToAsp(img, asp) ==
  LET ow == img.w
      oh == img.h
  IN  IF MustWiden(asp, ow, oh)
      THEN LET nw == (oh * asp.num) \div asp.den
               left == (nw - ow) \div 2
           IN  [w |-> nw, h |-> oh, x |-> img.x + left, y |-> img.y]
      ELSE IF MustHeighten(asp, ow, oh)
      THEN LET nh == (ow * asp.den) \div asp.num
               upper == (nh - oh) \div 2
           IN  [w |-> ow, h |-> nh, x |-> img.x, y |-> img.y + upper]
      ELSE img

\* the images _pad_to_asp is first given
PadInit ==
  /\ ClientInit
  /\ ConnInit
  /\ \E w \in 1..MaxSide : \E h \in 1..MaxSide : imgs = <<Image(w, h)>>

\* _pad_to_asp on the image the last call returned
PadImage ==
  /\ Len(imgs) \in 1..2
  /\ imgs' = Append(imgs, PadToAsp(imgs[Len(imgs)], PrepAsp))
  /\ UNCHANGED <<concurrency, active, admitted, released, cpc, cwaited, predVars,
                 connVars, threadVars, histVars>>

(* ------------------------------ Next ------------------------------------ *)
\* _check_conn on a status that is no failure
ReadyStep(t) ==
  \/ CheckConn(t)
  \/ SetReady(t)
  \/ ResetFailures(t)

\* _check_conn on a failure status, up to the call of _reconnect
FailureStep(t, jitters) ==
  \/ \E j \in jitters : StoreFailures(t, j)
  \/ Wake(t)

\* _disconnect and connect
LockStep(t) ==
  \/ DisconnectEnter(t)
  \/ DisconnectBody(t)
  \/ ConnectEnter(t)
  \/ ConnectOpen(t)
  \/ ConnectStub(t)

\* the public calls of the application
AppCall(cap, refresh) ==
  \/ \E fr \in refresh : CallConnect(fr, cap)
  \/ CallShutdown

\* the connection under the application thread and every channel thread
NextConn ==
  \/ AppCall(MaxChannels, BOOLEAN)
  \/ CallDisconnect
  \/ \E t \in CbThreads : \E s \in ChannelConnectivity :
        Deliver(t, s, MaxChannels)
  \/ \E t \in CbThreads : ReadyStep(t) \/ FailureStep(t, OneJitter)
  \/ \E t \in Threads : LockStep(t)

SpecConn == Init /\ [][NextConn]_vars

\* statuses delivered one after the other by a single channel thread
NextRow ==
  \/ AppCall(RowChannels, BOOLEAN)
  \/ \E s \in ChannelConnectivity : Deliver(1, s, RowChannels)
  \/ ReadyStep(1) \/ FailureStep(1, JitterTenths)
  \/ \E t \in {App, 1} : LockStep(t)

SpecRow == Init /\ [][NextRow]_vars

\* one predict caller retrying, beside the application thread and one
\* channel thread
NextRetry ==
  \/ AppCall(RetryChannels, {FALSE})
  \/ \E s \in ChannelConnectivity : Deliver(1, s, RetryChannels)
  \/ ReadyStep(1) \/ FailureStep(1, OneJitter)
  \/ \E t \in {App, 1} : LockStep(t)
  \/ \E n \in 0..MaxTries : CallPredict(1, n)
  \/ PredictStep(1, RpcOutcomes)

SpecRetry == Init /\ [][NextRetry]_vars

\* the same, where the IOLoop goes on running the coroutine of the caller:
\* the timeout of a wait fires, the future of an RPC resolves by its
\* deadline at the latest, a sleep ends
RetryFairness == WF_vars(PredictStep(1, RpcOutcomes))

SpecRetryFair == SpecRetry /\ RetryFairness

\* every caller, with complete(), beside the application thread and one
\* channel thread whose channel does not fail
NextThrottle ==
  \/ AppCall(ThrottleChannels, {FALSE})
  \/ \E s \in ChannelConnectivity \ FailureStatuses :
        Deliver(1, s, ThrottleChannels)
  \/ ReadyStep(1)
  \/ LockStep(App)
  \/ \E p \in Callers : \E n \in 1..ThrottleTries : CallPredict(p, n)
  \/ \E p \in Callers : PredictStep(p, {"error", "scalar"})
  \/ CompleteStep

SpecThrottle == Init /\ [][NextThrottle]_vars

\* everything at once
Next ==
  \/ AppCall(MaxChannels, BOOLEAN)
  \/ CallDisconnect
  \/ \E t \in CbThreads : \E s \in ChannelConnectivity :
        Deliver(t, s, MaxChannels)
  \/ \E t \in CbThreads : ReadyStep(t) \/ FailureStep(t, JitterTenths)
  \/ \E t \in Threads : LockStep(t)
  \/ \E p \in Callers : \E n \in 0..MaxTries : CallPredict(p, n)
  \/ \E p \in Callers : PredictStep(p, RpcOutcomes)
  \/ CompleteStep

Spec == Init /\ [][Next]_vars

\* _pad_to_asp applied twice to one image
NextPad == PadImage

SpecPad == PadInit /\ [][NextPad]_vars

(* ============================== claims ================================== *)

\* C1: under every interleaving of the admits (active += 1) and releases
\* (active -= 1) of concurrent _predict calls, active is never negative, and
\* when every admitted request has released it is exactly 0.
C1_ActiveBalanced ==
  /\ active >= 0
  /\ released <= admitted
  /\ (admitted = released => active = 0)

\* every caller has admitted and released, and the counter is back at 0
C1_Witness ==
  /\ admitted >= NumCallers
  /\ admitted = released
  /\ \A p \in Callers : rpcs[p] >= 1 /\ pc[p] = "done"

\* C2: complete() returns True only in a step taken with active = 0; while
\* an admitted request has not released, complete() does not return.
C2_CompleteOnlyAtZero ==
  [][(cpc' = "returned" /\ cpc # "returned") => (active = 0 /\ active' = 0)]_vars

\* complete() has waited for requests in flight and has then returned
C2_Witness ==
  /\ cpc = "returned"
  /\ cwaited
  /\ released >= 1
  /\ active = 0

Last(seq) == seq[Len(seq)]

\* attempts of caller p that have ended, by an exception or by a return
AttemptsEnded(p) ==
  Len(fails[p]) + (IF out[p].kind = "return" THEN 1 ELSE 0)

\* C3: a predict call with ntries = n >= 1 starts at most n attempts and
\* issues at most n RPCs, and its attempts are sequential: at most one
\* attempt is under way, all earlier ones have ended.
C3_AtMostNAttempts ==
  \A p \in Callers :
    ntries[p] >= 1 =>
      /\ cur_try[p] <= ntries[p]
      /\ rpcs[p] <= ntries[p]
      /\ cur_try[p] - AttemptsEnded(p) \in {0, 1}
      /\ (pc[p] \in {"loop", "backoff", "done"} =>
            cur_try[p] = AttemptsEnded(p))

\* a call whose every attempt issued an RPC that failed
C3_Witness ==
  \E p \in Callers :
    /\ pc[p] = "done"
    /\ ntries[p] = MaxTries
    /\ rpcs[p] = MaxTries
    /\ Len(fails[p]) = MaxTries

\* C4: a predict call (ntries >= 1) that has used up its attempts raises a
\* PredictionError made from the exception of the last failed attempt: that
\* very exception when it is a PredictionError, else a PredictionError with
\* its message; a call returns normally only when its last attempt succeeded.
C4_LastErrorSurfaces ==
  \A p \in Callers :
    (pc[p] = "done" /\ ntries[p] >= 1) =>
      IF out[p].kind = "raise"
        THEN /\ Len(fails[p]) = ntries[p]
             /\ out[p].exc.cls = "PredictionError"
             /\ out[p].exc.msg = Last(fails[p]).msg
             /\ out[p].exc.id = ntries[p]
             /\ (Last(fails[p]).cls = "PredictionError" =>
                   out[p].exc = Last(fails[p]))
        ELSE /\ out[p].kind = "return"
             /\ Len(fails[p]) = cur_try[p] - 1

\* the first attempt failed with a PredictionError, the last one with a
\* timeout of the readiness wait, and the timeout is what is reported
C4_Witness ==
  \E p \in Callers :
    /\ pc[p] = "done"
    /\ Len(fails[p]) = 2
    /\ fails[p][1].cls = "PredictionError"
    /\ fails[p][2].cls = "TimeoutError"
    /\ out[p].exc = PredictionError("Timeout", 2)

\* C5: an attempt that begins while the predictor is shutting down makes
\* predict fail at once with a PredictionError, with no backoff sleep.
C5_ShutdownShortCircuits ==
  [][\A p \in Callers :
       (cur_try'[p] = cur_try[p] + 1 /\ shutting_down) =>
          /\ pc'[p] = "done"
          /\ out'[p].kind = "raise"
          /\ out'[p].exc.cls = "PredictionError"
          /\ sleeps'[p] = sleeps[p]]_vars

\* C6: active never exceeds the concurrency the predictor was built with.
C6_ActiveBounded == active <= concurrency

\* C7: once shutdown() has returned, channel, stub and callback are None
\* and stay None, and no address is looked up and no channel is opened.
C7_ShutdownOneWay ==
  /\ [](shutdownDone =>
          channel = None /\ stub = None /\ conn_callback = None)
  /\ [][shutdownDone => (shutdownDone' /\ shutting_down' /\ nopen' = nopen)]_vars

\* shutdown() has returned while a failure callback, which was under way
\* when it ran, is about to call connect
C7_Witness ==
  /\ shutdownDone
  /\ nopen >= 1
  /\ \E t \in CbThreads : tpc[t] = "conn"

\* a step of the application thread
AppMoves == tpc'[App] # tpc[App] \/ top'[App] # top[App]

C9_SleepIncreases ==
  /\ consequtive_connection_failures = Len(sleepLog)
  /\ \A i \in 2..Len(sleepLog) : sleepLog[i].sleep > sleepLog[i-1].sleep

\* C9, amended: after failures in a row the counter is their number (3
\* after three), and the upper bound (failures << 1) * 0.1 s of the sleep is
\* larger on each callback than on the one before; the sleep itself is that
\* bound times the jitter and stays below it.
C9_BoundIncreases ==
  /\ consequtive_connection_failures = Len(sleepLog)
  /\ \A i \in 1..Len(sleepLog) :
        /\ sleepLog[i].count = i
        /\ sleepLog[i].sleep < sleepLog[i].bound
  /\ \A i \in 2..Len(sleepLog) : sleepLog[i].bound > sleepLog[i-1].bound

\* three failures in a row, the second sleep shorter than the first
C9_Witness ==
  /\ Len(sleepLog) = 3
  /\ consequtive_connection_failures = 3
  /\ sleepLog[2].sleep < sleepLog[1].sleep

\* C10: a readiness wait that times out ends the attempt with a retryable
\* exception, with no admit and no RPC; an RPC is issued only in an attempt
\* whose readiness wait succeeded; when the last attempt timed out, predict
\* raises a PredictionError with the message of the timeout.
C10_ReadyTimeoutRetried ==
  /\ [][\A p \in Callers :
          (pc[p] = "wait_ready" /\ pc'[p] # "wait_ready" /\ ~ready) =>
             /\ pc'[p] = "backoff"
             /\ e'[p].cls = "TimeoutError"
             /\ active' = active
             /\ admitted' = admitted
             /\ rpcs'[p] = rpcs[p]]_vars
  /\ [][\A p \in Callers :
          rpcs'[p] # rpcs[p] =>
             waited[p] = cur_try[p] /\ cur_try'[p] = cur_try[p]]_vars
  /\ [](\A p \in Callers :
          (/\ pc[p] = "done"
           /\ fails[p] # <<>>
           /\ Len(fails[p]) = ntries[p]
           /\ Last(fails[p]).cls = "TimeoutError") =>
             /\ cur_try[p] = ntries[p]
             /\ out[p].kind = "raise"
             /\ out[p].exc = PredictionError("Timeout", ntries[p]))

\* every attempt of a call timed out waiting: no RPC, a PredictionError
C10_Witness ==
  \E p \in Callers :
    /\ pc[p] = "done"
    /\ ntries[p] = MaxTries
    /\ rpcs[p] = 0
    /\ \A i \in 1..Len(fails[p]) : fails[p][i].cls = "TimeoutError"
    /\ Len(fails[p]) = MaxTries
    /\ out[p].exc.cls = "PredictionError"

\* responses with a feature vector whose score cannot be looked up: the
\* model version is missing, has no table, or the key is not in the table
LookupFailures ==
  {"vector_noversion", "vector_emptyversion", "vector_nomodel", "vector_nokey"}

\* C11: when the response carries a feature vector and the model version
\* or the (gender, age) key is absent from the demographic tables, the
\* attempt returns (None, features, version): nothing is raised, no backoff
\* sleep begins and no further attempt starts.
C11_LookupFailureDegrades ==
  [][\A p \in Callers :
       (pc[p] = "release" /\ pc'[p] # "release"
          /\ pending[p] \in LookupFailures) =>
          /\ pc'[p] = "done"
          /\ out'[p].kind = "return"
          /\ out'[p].val.score = "None"
          /\ out'[p].val.vec = "features"
          /\ out'[p].val.vers =
               (IF pending[p] = "vector_nokey" THEN "aqv2"
                ELSE IF pending[p] = "vector_nomodel" THEN "no-table"
                ELSE FallbackVersion)
          /\ fails'[p] = fails[p]
          /\ sleeps'[p] = sleeps[p]
          /\ cur_try'[p] = cur_try[p]]_vars

\* a first attempt answered with a feature vector of a known version whose
\* key is not in the table: the call has returned without a score
C11_Witness ==
  \E p \in Callers :
    /\ pc[p] = "done"
    /\ cur_try[p] = 1
    /\ ntries[p] = MaxTries
    /\ fails[p] = <<>>
    /\ out[p].kind = "return"
    /\ out[p].val = [score |-> "None", vec |-> "features", vers |-> "aqv2"]


\* C12: padding the result of _pad_to_asp again to the same aspect ratio
\* leaves width and height as they are and the first image at the same
\* offset, and no call of _pad_to_asp makes the width or the height smaller.
C12_PadIdempotent ==
  /\ \A i \in 2..Len(imgs) : imgs[i].w >= imgs[i-1].w /\ imgs[i].h >= imgs[i-1].h
  /\ Len(imgs) = 3 => imgs[3] = imgs[2]

\* padded twice, where the first call added columns or rows and did not
\* reach the ratio exactly, so that the second call computes a size again
C12_Witness ==
  /\ Len(imgs) = 3
  /\ imgs[2] # imgs[1]
  /\ PrepAsp.num * imgs[2].h # PrepAsp.den * imgs[2].w


\* the step is one of thread t
StepOf(t) == tpc'[t] # tpc[t]

\* C13: a callback that finds a status that is no failure: with READY and
\* the ready event clear it sets the event and then stores 0 in the failure
\* counter; with the event set it returns and leaves the event, the
\* counter, the channel and the stub as they are; with a status other than
\* READY it never sets the event.
C13_NonFailureStatus ==
  [][\A t \in CbThreads :
      /\ (tpc[t] = "check_conn" /\ ~IsFailure(targ[t]) /\ StepOf(t)) =>
            /\ UNCHANGED <<ready, consequtive_connection_failures, channel, stub>>
            /\ IF targ[t] = "READY" /\ ~ready
                 THEN tpc'[t] = "set_ready"
                 ELSE tpc'[t] = "idle"
      /\ (tpc[t] = "set_ready" /\ StepOf(t)) =>
            /\ targ[t] = "READY"
            /\ ready'
            /\ tpc'[t] = "reset"
            /\ UNCHANGED <<consequtive_connection_failures, channel, stub>>
      /\ (tpc[t] = "reset" /\ StepOf(t)) =>
            /\ targ[t] = "READY"
            /\ consequtive_connection_failures' = 0
            /\ tpc'[t] = "idle"
            /\ UNCHANGED <<ready, channel, stub>>
  ]_vars

\* a READY callback has set the event after failures were counted and is
\* about to store 0
C13_Witness ==
  \E t \in CbThreads : /\ tpc[t] = "reset"
                       /\ ready
                       /\ consequtive_connection_failures > 0


\* thread t runs the callback on a failure status
OnFailure(t) == top[t] = "_check_conn" /\ IsFailure(targ[t])

\* C14: a callback on TRANSIENT_FAILURE or FATAL_FAILURE first adds one to
\* the failure counter, then sleeps, then disconnects, then connects; when
\* it returns and the predictor is not shutting down, the ready event is
\* clear and a channel is in place, with a subscribed callback and with an
\* address that get_ip gave for force_refresh = True.
C14_FailureCallback ==
  [][\A t \in CbThreads : (OnFailure(t) /\ StepOf(t)) =>
      /\ tpc[t] = "check_conn" => tpc'[t] = "inc"
      /\ tpc[t] = "inc" =>
            /\ tpc'[t] = "sleep"
            /\ consequtive_connection_failures' = tload[t] + 1
      /\ tpc[t] = "sleep" => tpc'[t] = "disc"
      /\ tpc[t] = "disc" => tpc'[t] \in {"disc_body", "conn"} /\ ~ready'
      /\ tpc[t] = "disc_body" =>
            tpc'[t] = "conn" /\ channel' = None /\ stub' = None
      /\ tpc[t] = "conn_open" => lastRefresh' /\ channel' = nopen'
      /\ (tpc'[t] = "idle" /\ ~shutting_down) =>
            /\ ~ready'
            /\ channel' # None
            /\ conn_callback' = channel'
            /\ lastRefresh'
  ]_vars


\* the positions at which a thread is about to assign connection state
MutatingBody == {"inc", "set_ready", "reset", "disc_body", "conn_open", "conn_stub"}

\* C15: no two threads are at once inside the state-mutating bodies of
\* connect, _disconnect and the callback, and every step that changes the
\* channel, the stub, the subscribed callback, the ready event or the
\* failure counter is taken by the thread that holds _conn_lock.
C15_MutualExclusion ==
  [][/\ Cardinality({t \in Threads : tpc[t] \in MutatingBody}) <= 1
     /\ \A t \in Threads :
          (StepOf(t) /\ <<channel, stub, conn_callback, ready,
                          consequtive_connection_failures>>' #
                        <<channel, stub, conn_callback, ready,
                          consequtive_connection_failures>>)
            => (conn_lock = {t} \/ conn_lock' = {t})
  ]_vars


\* C16: the ready event is set only while a channel and a stub exist.
C16_ReadyTracksConnection == ready => (channel # None /\ stub # None)


\* the callers between `self.active += 1` and the finally clause
InFlight == {p \in Callers : pc[p] \in {"issue", "rpc", "release"}}

\* C17: active is the number of predict calls between admit and release;
\* a call that waits for the ready event, sleeps in its backoff or has
\* ended counts for nothing.
C17_ActiveCountsInFlight == active = Cardinality(InFlight)

\* one call is about to release after it found no stub, another sleeps in
\* its backoff
C17_Witness ==
  \E p, q \in Callers : /\ pc[p] = "release"
                        /\ pending[p] = "attr"
                        /\ pc[q] = "backoff"
                        /\ active = 1


\* C18: a backoff sleep is begun only after a failed attempt that is not
\* the last one, so a predict call sleeps at most ntries - 1 times.
C18_BackoffBetweenAttempts ==
  \A p \in Callers :
     /\ pc[p] = "backoff" => cur_try[p] < ntries[p]
     /\ ntries[p] > 0 => sleeps[p] <= ntries[p] - 1


\* C20: for every ntries >= 0, a predict call that ends without a result
\* ends with a PredictionError.
C20_TerminalErrorDefined ==
  \A p \in Callers :
     (pc[p] = "done" /\ out[p].kind = "raise") =>
        out[p].exc.cls = "PredictionError"


\* C19: every predict call that was begun ends, with a result or with an
\* exception, when waits time out, RPCs resolve and sleeps end, whatever
\* the connection threads do meanwhile.
C19_PredictTerminates ==
  \A p \in Callers : (pc[p] # "idle") ~> (pc[p] = "done")

\* a call that has ended after a wait that timed out and an RPC that failed
C19_Witness ==
  \E p \in Callers :
     /\ pc[p] = "done"
     /\ out[p].kind = "raise"
     /\ \E i, j \in 1..Len(fails[p]) :
           /\ fails[p][i].cls = "TimeoutError"
           /\ fails[p][j].msg = "RPC Error: rpc"


\* the upper bound of the sleep under a cap of the failure count, the bound
\* after one failure taken as the base delay
CappedBound(count, cap) ==
  (IF count < cap THEN count ELSE cap) * ConnBackoffBound(1)

\* the longest run of failures in the runs of SpecRow: the counter is
\* capped, and every failure after the first channel opens another one
LongestRun ==
  IF MaxFailures < RowChannels - 1 THEN MaxFailures ELSE RowChannels - 1

\* C21: the upper bound of the sleep of the callback is
\* min(failure count, cap) * base delay for a fixed cap, so that it stops
\* growing in a run of failures longer than the cap; the cap is looked for
\* below the longest run of failures.
C21_BackoffCapped ==
  \E cap \in 1..(LongestRun - 1) :
     \A i \in 1..Len(sleepLog) :
        sleepLog[i].bound = CappedBound(sleepLog[i].count, cap)

=============================================================================









